---- MODULE Spec2Model ----
(***************************************************************************)
(* Model of animal-detector/backend/main.py: the handler                   *)
(* annotate_image_for_download, its label layout arithmetic, the draw      *)
(* calls it issues on the raster, and the SQLAlchemy session it stages     *)
(* AnnotationEntry rows in.                                                *)
(*                                                                         *)
(* Coordinates are whole pixels.  A string is a sequence of characters.    *)
(* A data-URI is a sequence of tokens [k |-> kind, v |-> value].           *)
(* ImageDraw.rectangle fills both corner points, so a rectangle            *)
(* <<x0, y0, x1, y1>> covers the pixel rows y0..y1 and columns x0..x1.     *)
(***************************************************************************)
EXTENDS Integers, Sequences, FiniteSets, TLC

\* ------------------------------------------------------------------ bounds

MaxBoxes == 2

\* --------------------------------------------------------------- constants

Padding == 5

TextInset == 2

\* Optional[float]: None, or a value
None == [some |-> FALSE, v |-> 0]

Some(x) == [some |-> TRUE, v |-> x]

\* no raster decoded (yet)
NoImage == [w |-> 0, h |-> 0, base |-> 0, ops |-> <<>>]

\* ------------------------------------------------------------------ strings

Digit(d) == CASE d = 0 -> "0" [] d = 1 -> "1" [] d = 2 -> "2" [] d = 3 -> "3"
              [] d = 4 -> "4" [] d = 5 -> "5" [] d = 6 -> "6" [] d = 7 -> "7"
              [] d = 8 -> "8" [] OTHER -> "9"

RECURSIVE Digits(_)
Digits(n) == IF n < 10 THEN <<Digit(n)>> ELSE Digits(n \div 10) \o <<Digit(n % 10)>>

\* f"{v:.4f}" of a whole number of degrees
Fmt4f(v) ==
    (IF v < 0 THEN <<"-">> ELSE <<>>) \o Digits(IF v < 0 THEN -v ELSE v)
        \o <<".", "0", "0", "0", "0">>

FechaPrefix == <<"F", "e", "c", "h", "a", ":", " ">>

DateText(date) == FechaPrefix \o date

CoordsText(lat, lon) ==
    <<"L", "a", "t", ":", " ">> \o Fmt4f(lat) \o <<",", " ", "L", "o", "n", ":", " ">> \o Fmt4f(lon)

\* ------------------------------------------------------------ text metrics

TallGlyphs == {"F", "L", "T", "h", "t", "j", "f"}

NarrowGlyphs == {" ", ".", ",", ":", "j"}

GlyphW(c) == IF c \in NarrowGlyphs THEN 3 ELSE 6

GlyphH(c) == IF c \in TallGlyphs THEN 9 ELSE 7

RECURSIVE SumW(_)
SumW(text) == IF text = <<>> THEN 0 ELSE GlyphW(Head(text)) + SumW(Tail(text))

RECURSIVE MaxH(_)
MaxH(text) ==
    IF text = <<>> THEN 0
    ELSE LET r == MaxH(Tail(text)) h == GlyphH(Head(text)) IN IF h > r THEN h ELSE r

\* draw.textbbox((0,0), text, font=font): <<left, top, right, bottom>>
textbbox(text) ==
    IF text = <<>> THEN <<0, 0, 0, 0>>
    ELSE <<0, 9 - MaxH(text), SumW(text), 9>>

TextWidth(text) == textbbox(text)[3] - textbbox(text)[1]

TextHeight(text) == textbbox(text)[4] - textbbox(text)[2]

\* ------------------------------------------------------------------ layout

\* lines 114-117: the name label's top-left corner
NameX(box) == box.x1

\* mutant: the fallback also fires when the label just fits
NameY_OffByOne(box, name_text_height) ==
    LET name_y == box.y1 - name_text_height - Padding
    IN  IF name_y <= 0 THEN box.y1 + Padding ELSE name_y

NameY(box, name_text_height) ==
    LET name_y == box.y1 - name_text_height - Padding
    IN  IF name_y < 0 THEN box.y1 + Padding ELSE name_y

\* lines 125-127
DateYOffset(box, name_y, name_text_height) ==
    IF name_y = box.y1 + Padding THEN name_text_height + Padding ELSE 0

\* lines 135-136
\* mutant: the right padding is forgotten
DateX_NoPadding(box, date_text_width) == box.x2 - date_text_width

DateX(box, date_text_width) == box.x2 - date_text_width - Padding

DateY(box, name_y, name_text_height) == name_y + DateYOffset(box, name_y, name_text_height)

\* lines 150-151
CoordsX(box, coords_text_width) == box.x2 - coords_text_width - Padding

CoordsY(box) == box.y1 + Padding

\* mutant: the plate is only as tall as the text
PlateRect_NoBottomPad(x, y, text_width, text_height) ==
    <<x, y, x + text_width + Padding, y + text_height>>

\* lines 120, 139, 154: the corner points handed to draw.rectangle for a plate
PlateRect(x, y, text_width, text_height) ==
    <<x, y, x + text_width + Padding, y + text_height + Padding>>

\* lines 121, 140, 155: the point handed to draw.text
TextPos(x, y) == <<x + TextInset, y + TextInset>>

\* ------------------------------------------------------------- draw calls

Rectangle(i, label, xy) ==
    [fn |-> "rectangle", box |-> i, label |-> label, xy |-> xy, text |-> <<>>]

Text(i, label, xy, text) ==
    [fn |-> "text", box |-> i, label |-> label, xy |-> xy, text |-> text]

\* a plate and the text on it
LabelOps(i, label, x, y, text) ==
    << Rectangle(i, label, PlateRect(x, y, TextWidth(text), TextHeight(text))),
       Text(i, label, TextPos(x, y), text) >>

\* line 106
OutlineOps(i, box) == << Rectangle(i, "outline", <<box.x1, box.y1, box.x2, box.y2>>) >>

\* lines 109-121
NameOps(i, box) ==
    LabelOps(i, "name", NameX(box), NameY(box, TextHeight(box.name)), box.name)

\* lines 125-140
DateOps(i, box) ==
    IF box.date # <<>>
    THEN LET date_text == DateText(box.date)
             name_text_height == TextHeight(box.name)
             name_y == NameY(box, name_text_height)
         IN  LabelOps(i, "date", DateX(box, TextWidth(date_text)),
                      DateY(box, name_y, name_text_height), date_text)
    ELSE <<>>

\* lines 144-155
CoordsOps(i, box, latitude, longitude) ==
    IF latitude.some /\ longitude.some
    THEN LET coords_text == CoordsText(latitude.v, longitude.v)
         IN  LabelOps(i, "coords", CoordsX(box, TextWidth(coords_text)),
                      CoordsY(box), coords_text)
    ELSE <<>>

\* lines 106-155: every draw call of one loop iteration, in order
BoxOps(i, box, latitude, longitude) ==
    OutlineOps(i, box) \o NameOps(i, box) \o DateOps(i, box)
        \o CoordsOps(i, box, latitude, longitude)

\* lines 158-164
AnnotationEntry(image_id, box, latitude, longitude) ==
    [image_id |-> image_id, box_name |-> box.name, box_date |-> box.date,
     annotation_latitude |-> latitude, annotation_longitude |-> longitude]

\* ------------------------------------------------------------- image codec

\* one token of a data-URI string or of the bytes it encodes
Tok(k, n, ops, b64) == [k |-> k, n |-> n, ops |-> ops, b64 |-> b64]

Comma == Tok("comma", 0, <<>>, FALSE)

Header(fmt) == Tok("hdr", fmt, <<>>, FALSE)

\* the bytes of an encoded raster: magic, width, height, pixels
RasterBytes(img) ==
    << Tok("magic", 0, <<>>, FALSE), Tok("dim", img.w, <<>>, FALSE),
       Tok("dim", img.h, <<>>, FALSE), Tok("pix", img.base, img.ops, FALSE) >>

JunkBytes == << Tok("junk", 0, <<>>, FALSE) >>

\* base64.b64encode(bytes).decode("utf-8")
b64encode(bytes) == [j \in 1..Len(bytes) |-> [bytes[j] EXCEPT !.b64 = TRUE]]

IsB64(t) == t.b64

\* base64.b64decode(s): characters outside the alphabet are discarded
b64decode(s) ==
    LET a == SelectSeq(s, IsB64) IN [j \in 1..Len(a) |-> [a[j] EXCEPT !.b64 = FALSE]]

RECURSIVE FirstComma(_, _)
FirstComma(s, j) ==
    IF j > Len(s) THEN 0 ELSE IF s[j].k = "comma" THEN j ELSE FirstComma(s, j + 1)

\* mutant: a string without comma is taken as a payload with an empty header
split_Lenient(s) ==
    LET c == FirstComma(s, 1)
    IN  IF c = 0 THEN << <<>>, s >> ELSE << SubSeq(s, 1, c - 1), SubSeq(s, c + 1, Len(s)) >>

\* s.split(",", 1): one part when s holds no comma, else header and the rest
split(s) ==
    LET c == FirstComma(s, 1)
    IN  IF c = 0 THEN <<s>> ELSE << SubSeq(s, 1, c - 1), SubSeq(s, c + 1, Len(s)) >>

\* whether Image.open identifies the bytes as a raster
IsRaster(bytes) ==
    /\ Len(bytes) = 4
    /\ bytes[1].k = "magic" /\ bytes[2].k = "dim" /\ bytes[3].k = "dim" /\ bytes[4].k = "pix"
    /\ bytes[2].n > 0 /\ bytes[3].n > 0

\* Image.open(io.BytesIO(bytes)).convert("RGB")
ImageOpen(bytes) ==
    [w |-> bytes[2].n, h |-> bytes[3].n, base |-> bytes[4].n, ops |-> bytes[4].ops]

\* mutant: the raster is saved with width and height exchanged
ImageSave_Transposed(img) == RasterBytes([img EXCEPT !.w = img.h, !.h = img.w])

\* original_image.save(buffered, format="PNG"); buffered.getvalue()
ImageSave(img) == RasterBytes(img)

\* lines 85-88 succeed: the string unpacks into two parts and the payload is a raster
Decodable(image) ==
    /\ Len(split(image)) = 2
    /\ IsRaster(b64decode(split(image)[2]))

\* line 175: f"data:image/png;base64,{encoded_annotated_image}"
DataURI(img) == << Header(1), Comma >> \o b64encode(ImageSave(img))

\* ----------------------------------------------------------------- inputs

Raster1 == [w |-> 4, h |-> 3, base |-> 7, ops |-> <<>>]

Raster2 == [w |-> 2, h |-> 5, base |-> 8, ops |-> <<>>]

\* "data:image/jpeg;base64,<payload>", and one with an empty header
GoodImages ==
    { << Header(2), Comma >> \o b64encode(RasterBytes(Raster1)),
      << Comma >> \o b64encode(RasterBytes(Raster2)) }

\* a payload without the data-URI prefix
NoCommaImages == { b64encode(RasterBytes(Raster1)) }

\* a prefix followed by bytes that are no raster
JunkImages == { << Header(2), Comma >> \o b64encode(JunkBytes) }

Images == GoodImages \cup NoCommaImages \cup JunkImages

Bx(x1, y1, x2, y2, name, date) ==
    [x1 |-> x1, y1 |-> y1, x2 |-> x2, y2 |-> y2, name |-> name, date |-> date]

Fox == <<"f", "o", "x">>

Emu == <<"e", "m", "u">>

D24 == <<"2", "4">>

Boxes ==
    { Bx(50, 2, 150, 80, Fox, D24),
      Bx(50, 2, 150, 80, Emu, <<>>),
      Bx(10, 14, 400, 90, Fox, D24),
      Bx(10, 14, 400, 90, Emu, <<>>),
      Bx(0, 40, 60, 70, Emu, D24),
      Bx(20, -3, 400, 50, <<>>, D24) }

BoxSeqs == UNION { [1..n -> Boxes] : n \in 0..MaxBoxes }

Geos == { <<None, None>>, <<Some(-34), None>>, <<Some(-34), Some(5)>> }

\* rows other requests left in annotation_entries
PriorStores ==
    { <<>>,
      << [image_id |-> 0, box_name |-> Emu, box_date |-> <<>>,
          annotation_latitude |-> None, annotation_longitude |-> None] >> }

\* ---------------------------------------------------------- session, store

\* mutant: an entry equal to a pending one is not added again
SessionAdd_Dedup(session, db_entry) ==
    IF \E k \in DOMAIN session : session[k] = db_entry THEN session
    ELSE Append(session, db_entry)

\* db.add(db_entry): the entry is pending in the session
SessionAdd(session, db_entry) == Append(session, db_entry)

\* mutant: every add is written at once
StoreOnAdd_Autocommit(store, db_entry) == Append(store, db_entry)

\* sessionmaker(autocommit=False, autoflush=False): adding writes nothing
StoreOnAdd(store, db_entry) == store

\* db.commit(): every pending entry becomes a row, in insertion order
StoreOnCommit(store, session) == store \o session

NoResponse == [status |-> 0, annotated_image |-> <<>>, detail |-> "pending"]

ErrorResponse(kind) == [status |-> 500, annotated_image |-> <<>>, detail |-> kind]

OkResponse(img) == [status |-> 200, annotated_image |-> DataURI(img), detail |-> "ok"]

\* ------------------------------------------------------------------- state

VARIABLES
    pc,              \* where the handler is
    annotation,      \* the request body
    original_image,  \* the raster being drawn on
    image_id_gen,    \* the id shared by the request's rows
    i,               \* 1-based index of the next box of the loop
    pending,         \* entries added to the session and not committed
    store,           \* rows of annotation_entries
    store0,          \* rows of annotation_entries when the request arrived
    response,        \* what the client gets
    clock            \* datetime.now()

vars == <<pc, annotation, original_image, image_id_gen, i, pending, store, store0,
          response, clock>>

NoAnnotation == [image |-> <<>>, boxes |-> <<>>, latitude |-> None, longitude |-> None]

Init ==
    /\ pc = "idle"
    /\ annotation = NoAnnotation
    /\ original_image = NoImage
    /\ image_id_gen = 0
    /\ i = 1
    /\ pending = <<>>
    /\ store \in PriorStores
    /\ store0 = store
    /\ response = NoResponse
    /\ clock = 1

\* the request arrives; get_db opens a session
Receive ==
    /\ pc = "idle"
    /\ \E image \in Images, boxes \in BoxSeqs, geo \in Geos :
          annotation' = [image |-> image, boxes |-> boxes,
                         latitude |-> geo[1], longitude |-> geo[2]]
    /\ pc' = "decode"
    /\ UNCHANGED <<original_image, image_id_gen, i, pending, store, store0, response, clock>>

\* lines 85-100
Decode ==
    /\ pc = "decode"
    /\ Decodable(annotation.image)
    /\ original_image' = ImageOpen(b64decode(split(annotation.image)[2]))
    /\ image_id_gen' = clock
    /\ clock' = clock + 1
    /\ i' = 1
    /\ pc' = "loop"
    /\ UNCHANGED <<annotation, pending, store, store0, response>>

\* lines 85-88 raise
DecodeFail ==
    /\ pc = "decode"
    /\ ~Decodable(annotation.image)
    /\ response' = ErrorResponse("DecodeError")
    /\ pc' = "failed"
    /\ UNCHANGED <<annotation, original_image, image_id_gen, i, pending, store, store0, clock>>

\* lines 104-165: one iteration of the loop
ProcessBox ==
    /\ pc = "loop"
    /\ i <= Len(annotation.boxes)
    /\ LET box == annotation.boxes[i]
           db_entry == AnnotationEntry(image_id_gen, box, annotation.latitude,
                                       annotation.longitude)
       IN  /\ original_image' =
                 [original_image EXCEPT !.ops =
                     @ \o BoxOps(i, box, annotation.latitude, annotation.longitude)]
           /\ pending' = SessionAdd(pending, db_entry)
           /\ store' = StoreOnAdd(store, db_entry)
    /\ i' = i + 1
    /\ UNCHANGED <<pc, annotation, image_id_gen, store0, response, clock>>

\* lines 106-155 raise after some of the iteration's draw calls
ProcessBoxFail ==
    /\ pc = "loop"
    /\ i <= Len(annotation.boxes)
    /\ LET ops == BoxOps(i, annotation.boxes[i], annotation.latitude, annotation.longitude)
       IN  \E done \in 0..(Len(ops) - 1) :
              original_image' = [original_image EXCEPT !.ops = @ \o SubSeq(ops, 1, done)]
    /\ response' = ErrorResponse("RenderError")
    /\ pc' = "failed"
    /\ UNCHANGED <<annotation, image_id_gen, i, pending, store, store0, clock>>

\* line 167
Commit ==
    /\ pc = "loop"
    /\ i > Len(annotation.boxes)
    /\ store' = StoreOnCommit(store, pending)
    /\ pending' = <<>>
    /\ pc' = "encode"
    /\ UNCHANGED <<annotation, original_image, image_id_gen, i, store0, response, clock>>

\* line 167 raises: the transaction is rolled back
CommitFail ==
    /\ pc = "loop"
    /\ i > Len(annotation.boxes)
    /\ response' = ErrorResponse("PersistenceError")
    /\ pc' = "failed"
    /\ UNCHANGED <<annotation, original_image, image_id_gen, i, pending, store, store0, clock>>

\* lines 170-175
Respond ==
    /\ pc = "encode"
    /\ response' = OkResponse(original_image)
    /\ pc' = "close"
    /\ UNCHANGED <<annotation, original_image, image_id_gen, i, pending, store, store0, clock>>

\* lines 56-57: db.close() drops whatever is still pending
Close ==
    /\ pc \in {"close", "failed"}
    /\ pending' = <<>>
    /\ pc' = "closed"
    /\ UNCHANGED <<annotation, original_image, image_id_gen, i, store, store0, response, clock>>

Next ==
    \/ Receive
    \/ Decode
    \/ DecodeFail
    \/ ProcessBox
    \/ ProcessBoxFail
    \/ Commit
    \/ CommitFail
    \/ Respond
    \/ Close

Spec == Init /\ [][Next]_vars

\* ----------------------------------------------------- reading the draw log

DrawLog == original_image.ops

NBoxes == Len(annotation.boxes)

HasPlate(j, label) ==
    \E k \in DOMAIN DrawLog :
        DrawLog[k].fn = "rectangle" /\ DrawLog[k].box = j /\ DrawLog[k].label = label

PlateOf(j, label) ==
    DrawLog[CHOOSE k \in DOMAIN DrawLog :
        DrawLog[k].fn = "rectangle" /\ DrawLog[k].box = j /\ DrawLog[k].label = label].xy

HasText(j, label) ==
    \E k \in DOMAIN DrawLog :
        DrawLog[k].fn = "text" /\ DrawLog[k].box = j /\ DrawLog[k].label = label

TextOf(j, label) ==
    DrawLog[CHOOSE k \in DOMAIN DrawLog :
        DrawLog[k].fn = "text" /\ DrawLog[k].box = j /\ DrawLog[k].label = label]

\* the string a label of box j shows
LabelText(j, label) ==
    CASE label = "name" -> annotation.boxes[j].name
      [] label = "date" -> DateText(annotation.boxes[j].date)
      [] OTHER -> CoordsText(annotation.latitude.v, annotation.longitude.v)

Labels == {"name", "date", "coords"}

NameH(j) == TextHeight(annotation.boxes[j].name)

\* the name label of box j does not fit above the box
Relocated(j) == annotation.boxes[j].y1 < NameH(j) + Padding

\* closed pixel rectangles <<x0, y0, x1, y1>> share a pixel
Intersect(p, q) == p[1] <= q[3] /\ q[1] <= p[3] /\ p[2] <= q[4] /\ q[2] <= p[4]

\* ------------------------------------------------------------------ claims

\* C1: the name label sits at x = box.x1; when box.y1 >= h + padding its plate
\* top is box.y1 - h - padding and not negative, otherwise it is relocated
\* inside the box at y = box.y1 + padding.
C1_NamePlacement ==
    \A j \in 1..NBoxes :
        HasPlate(j, "name") =>
            LET box == annotation.boxes[j]
                h == NameH(j)
                p == PlateOf(j, "name")
            IN  /\ p[1] = box.x1
                /\ box.y1 >= h + Padding => (p[2] = box.y1 - h - Padding /\ p[2] >= 0)
                /\ box.y1 < h + Padding => p[2] = box.y1 + Padding

C1_Witness ==
    \E j, k \in 1..NBoxes :
        /\ HasPlate(j, "name") /\ HasPlate(k, "name")
        /\ annotation.boxes[j].y1 = NameH(j) + Padding
        /\ annotation.boxes[j].name # <<>>
        /\ Relocated(k)

\* C2: when the name label was relocated inside the box and the date string is
\* not empty, the date label's y is nameLabel.y + (height of the name plate)
\* + padding, and the date plate is strictly below the name plate.
C2_DateBelowName ==
    \A j \in 1..NBoxes :
        (Relocated(j) /\ HasPlate(j, "name") /\ HasPlate(j, "date")) =>
            LET np == PlateOf(j, "name")
                dp == PlateOf(j, "date")
            IN  /\ dp[2] = np[2] + (np[4] - np[2]) + Padding
                /\ dp[2] > np[4]

\* C3: with latitude and longitude given, the coordinates label's y is pushed
\* to at least nameLabel.y + nameLabel.height + padding when the name label
\* was relocated and box.y1 + padding falls within its vertical extent;
\* otherwise it is box.y1 + padding.
C3_CoordsPushedDown ==
    \A j \in 1..NBoxes :
        (HasPlate(j, "name") /\ HasPlate(j, "coords")) =>
            LET box == annotation.boxes[j]
                np == PlateOf(j, "name")
                cp == PlateOf(j, "coords")
            IN  IF Relocated(j) /\ np[2] <= box.y1 + Padding /\ box.y1 + Padding <= np[4]
                THEN cp[2] >= np[2] + (np[4] - np[2]) + Padding
                ELSE cp[2] = box.y1 + Padding

\* C4: for a box with x1 < x2 and y1 < y2, no two label plates drawn for that
\* box intersect.
C4_PlatesDisjoint ==
    \A j \in 1..NBoxes :
        \A a, b \in Labels :
            ( /\ a # b
              /\ annotation.boxes[j].x1 < annotation.boxes[j].x2
              /\ annotation.boxes[j].y1 < annotation.boxes[j].y2
              /\ HasPlate(j, a) /\ HasPlate(j, b) )
            => ~Intersect(PlateOf(j, a), PlateOf(j, b))

\* C5 as stated: every label plate is w + 2*inset wide and h + 2*inset high
\* (inset = 2) for the measured text size (w, h), and the text is drawn at
\* the plate's corner plus (2, 2).
C5_PlateTwoInsets ==
    \A j \in 1..NBoxes : \A a \in Labels :
        HasPlate(j, a) =>
            LET p == PlateOf(j, a)
                w == TextWidth(LabelText(j, a))
                h == TextHeight(LabelText(j, a))
            IN  /\ p[3] - p[1] = w + 2 * TextInset
                /\ p[4] - p[2] = h + 2 * TextInset
                /\ HasText(j, a) => TextOf(j, a).xy = <<p[1] + 2, p[2] + 2>>

\* C5 amended: every label plate runs from the label's (x, y) to
\* (x + w + padding, y + h + padding) with padding = 5, and the label's text
\* is drawn at (x + 2, y + 2).
C5_PlatePadding ==
    \A j \in 1..NBoxes : \A a \in Labels :
        HasPlate(j, a) =>
            LET p == PlateOf(j, a)
                w == TextWidth(LabelText(j, a))
                h == TextHeight(LabelText(j, a))
            IN  /\ p[3] - p[1] = w + 5
                /\ p[4] - p[2] = h + 5
                /\ HasText(j, a) =>
                      /\ TextOf(j, a).xy = <<p[1] + 2, p[2] + 2>>
                      /\ TextOf(j, a).text = LabelText(j, a)

C5_Witness ==
    \E j \in 1..NBoxes :
        /\ \A a \in Labels : HasPlate(j, a) /\ HasText(j, a)
        /\ annotation.boxes[j].name # <<>>

\* the rows the request is to insert, in input order
ExpectedRows ==
    [k \in 1..NBoxes |->
        [image_id |-> image_id_gen,
         box_name |-> annotation.boxes[k].name,
         box_date |-> annotation.boxes[k].date,
         annotation_latitude |-> annotation.latitude,
         annotation_longitude |-> annotation.longitude]]

\* C6: after a successful request with boxes b1..bn the store holds exactly n
\* new rows, row k carrying box k's name and date, all with the same image id
\* and the request's latitude and longitude; none for n = 0.
C6_OneRowPerBox ==
    response.status = 200 => store = store0 \o ExpectedRows

C6_Witness ==
    /\ response.status = 200
    /\ NBoxes >= 2
    /\ annotation.boxes[1] = annotation.boxes[2]
    /\ store0 # <<>>
    /\ annotation.latitude.some

\* C7: when the image string has no comma or its payload is no raster, the
\* request ends in an error: no annotated image, nothing drawn, no row
\* staged or committed.
C7_DecodeErrorAborts ==
    (pc \notin {"idle", "decode"} /\ annotation.image \in NoCommaImages \cup JunkImages) =>
        /\ response.status = 500
        /\ response.annotated_image = <<>>
        /\ original_image = NoImage
        /\ pending = <<>>
        /\ store = store0

C7_Witness ==
    /\ pc = "closed"
    /\ annotation.image \in NoCommaImages
    /\ NBoxes >= 1

\* the raster the request's image decodes to
InputRaster == ImageOpen(b64decode(split(annotation.image)[2]))

\* the raster the response's data-URI decodes to
OutputRaster == ImageOpen(b64decode(split(response.annotated_image)[2]))

\* C8: with zero boxes nothing is drawn and the returned raster equals the
\* decoded input; with any number of boxes the raster keeps the input's
\* pixel dimensions at every step and in the response.
C8_RasterPreserved ==
    /\ NBoxes = 0 => DrawLog = <<>>
    /\ original_image # NoImage =>
          original_image.w = InputRaster.w /\ original_image.h = InputRaster.h
    /\ response.status = 200 =>
          /\ Decodable(response.annotated_image)
          /\ OutputRaster.w = InputRaster.w /\ OutputRaster.h = InputRaster.h
          /\ NBoxes = 0 => OutputRaster = InputRaster

C8_Witness ==
    /\ response.status = 200
    /\ NBoxes = 0
    /\ OutputRaster.w # OutputRaster.h

\* C9: a date label is drawn exactly for the boxes with a non-empty date; its
\* plate's right edge is box.x2, and its y is the name label's y when the
\* name label was not relocated (box.y1 - nameTextHeight - padding >= 0).
C9_DatePlacement ==
    \A j \in 1..NBoxes :
        LET box == annotation.boxes[j]
        IN  /\ HasPlate(j, "date") => box.date # <<>>
            /\ (j < i /\ box.date # <<>>) => HasPlate(j, "date")
            /\ HasPlate(j, "date") =>
                  /\ PlateOf(j, "date")[3] = box.x2
                  /\ box.y1 - NameH(j) - Padding >= 0 =>
                        PlateOf(j, "date")[2] = PlateOf(j, "name")[2]

C9_Witness ==
    \E j, k \in 1..NBoxes :
        /\ j < i /\ k < i
        /\ HasPlate(j, "date") /\ ~Relocated(j)
        /\ ~HasPlate(k, "date")

\* C10: rows are only staged while boxes are processed and reach the store in
\* one commit after the last box; a failed request leaves the store as it
\* was and gets no success response; a success response comes only after
\* the commit of all n rows.
C10_AllOrNothing ==
    /\ [](pc \in {"idle", "decode", "loop", "failed"} =>
             (store = store0 /\ response.status # 200))
    /\ [](response.status = 500 => store = store0)
    /\ [](response.status = 200 => Len(store) = Len(store0) + NBoxes)
    /\ [][store' # store =>
             /\ pc = "loop" /\ i > NBoxes
             /\ Len(pending) = NBoxes
             /\ store' = store \o pending
             /\ response = NoResponse]_vars

C10_Witness ==
    /\ pc = "failed"
    /\ response.detail = "RenderError"
    /\ Len(pending) >= 1
    /\ store = store0

====
